---- MODULE Spec2Model ----
(***************************************************************************)
(* Model of the SPIFFE client SDK (package spiffesdk): the credential      *)
(* cache (SVIDCache) and its RWMutex, Initialize, refreshSVID, the         *)
(* auto-renewal loop, GetCurrentSVID, Close, the HeadlessAPI calls and the *)
(* incoming validation middleware.                                         *)
(*                                                                         *)
(* Time is a discrete clock `now`; durations are integers.  time.Until     *)
(* saturates instead of wrapping, so the comparison with RenewalThreshold  *)
(* is the integer comparison modelled here.                                *)
(***************************************************************************)
EXTENDS Integers, Sequences, FiniteSets, TLC

\* ------------------------------------------------------------------------
\* Bounds of the model
\* ------------------------------------------------------------------------
MaxTime == 3          \* last instant of the clock
MaxIssue == 2         \* credentials the issuance service issues
MaxHostLen == 4       \* longest host name drawn from Chars
MaxRuleLen == 2       \* longest routing rule drawn from Chars

\* ------------------------------------------------------------------------
\* Program constants
\* ------------------------------------------------------------------------
StatusOK == 200
StatusCreated == 201
StatusUnauthorized == 401

None == "none"
ZeroTime == 0         \* time.Time{} : the zero instant, before every clock value

\* The calls of Initialize on the instance (the call the examples make and
\* a repeated call) and the concurrent callers of GetCurrentSVID.
InitIds == {"first", "again"}
Readers == {"r1"}
InitTask(i) == <<"init", i>>
LoopTask(i) == <<"loop", i>>
GetTask(r) == <<"get", r>>
Callers == {InitTask(i) : i \in InitIds} \cup {LoopTask(i) : i \in InitIds}
NoTask == <<"no", "task">>     \* the holder of a lock that nobody holds

\* Status codes the issuance service answers with (500: any other code).
Statuses == {StatusOK, StatusCreated, 500}
\* Input domains: the configured durations and the lifetimes (expires_at
\* minus issued_at) of the credentials the service issues.
RenewalThresholds == {1, 2}
CheckIntervals == {1, 2}
Lifetimes == {0, 1, 3}

VARIABLES
    config,        \* Config.RenewalThreshold, Config.CheckInterval
    now,           \* the clock
    currentSVID,   \* SpiffeSDK.currentSVID : the SVIDCache fields
    muWriter,      \* currentSVID.mu : task holding the write lock, or NoTask
    muReaders,     \* currentSVID.mu : tasks holding the read lock
    cancelled,     \* s.ctx is done (s.cancel was called)
    workloadAPI,   \* s.workloadAPI # nil
    tlsConfig,     \* s.tlsConfig # nil
    ipc,           \* position of each Initialize call
    initErr,       \* the error each Initialize call returned ("none": no return yet)
    lpc,           \* position of each renewal loop (startAutoRenewal)
    rf,            \* position inside refreshSVID of each caller
    resp,          \* HTTP response a caller has just received
    workloadID,    \* GetOrRefreshSVID's local workloadID
    svid,          \* refreshSVID's local svid (decoded SVIDResponse)
    timeToExpiry,  \* startAutoRenewal's local timeToExpiry
    tickPending,   \* a tick waits in ticker.C (capacity 1)
    nextTick,      \* instant of the ticker's next tick
    gpc,           \* position of each GetCurrentSVID caller
    issuedCount,   \* number of credentials the issuance service has issued
    origin,        \* history: for each field of the cache, the number of the
                   \* response it was copied from (0: none)
    nominal,       \* history: so far every issuance call has succeeded and
                   \* every issued credential has expires_at > issued_at
    setCount,      \* history: completed writes of refreshSVID
    tickFetches,   \* history: refreshSVID calls started for the current tick
    lastGet,       \* history: the value last returned to each reader since
                   \* the last completed write of refreshSVID (NoGet: no
                   \* read since), and whether a read came before it
    seen,          \* history: the latest-issued credential each reader has
                   \* been returned so far (0: none)
    retryDue,      \* history: the loop's last refreshSVID failed and no tick
                   \* has been handled to its check since
    ticksAfterCancel  \* history: ticks each loop took from ticker.C after s.cancel()

VARIABLES
    mpc,           \* position of the middleware's handler function
    req,           \* the inbound request: r.TLS # nil, r.TLS.PeerCertificates
    vresp,         \* HTTP response of the verification endpoint
    vpayload,      \* the "certificate" of the payload sent to it
    vcalls,        \* history: verification calls made for the request
    result,        \* what ValidateIncomingSVID returned: err, Valid, SPIFFEID
    written,       \* status written to the ResponseWriter by http.Error (0: none)
    nextCalls,     \* history: calls of next.ServeHTTP for the request
    nextCtx        \* value of the context key "spiffe_id" that next was given

lockVars == <<muWriter, muReaders>>
sdkVars == <<workloadAPI, tlsConfig>>
loopVars == <<lpc, timeToExpiry, tickPending, nextTick, tickFetches, retryDue,
              ticksAfterCancel>>
callVars == <<rf, resp, workloadID, svid>>
getVars == <<gpc, lastGet, seen>>
lifeVars == <<config, now, currentSVID, lockVars, cancelled, sdkVars, ipc, initErr,
              loopVars, callVars, getVars, issuedCount, origin, nominal, setCount>>

VARIABLES
    rtpc,             \* the client of NewInternalHTTPClient: "noclient", "idle",
                      \* "called" (in RoundTrip), "done" (RoundTrip has returned)
    internalDomains,  \* smartTransport.internalDomains
    smartTLS,         \* smartTransport.mtlsTransport.TLSClientConfig # nil
    rtReq,            \* the request given to smartTransport.RoundTrip
    rtUsed,           \* the transports it dispatched the request to, in order
    rtStore,          \* history: the credential cached when RoundTrip last ran
    rtPrev,           \* history: what the evaluation before dispatched to and the
                      \* credential then cached, when it was for the same host
    httpClient        \* a client GetHTTPClient has returned, or NoClient

VARIABLES
    mtpc,             \* the transport of OutgoingAttachmentMiddleware: "none",
                      \* "idle", "called" (in RoundTrip), "done"
    mtTransport,      \* spiffeMTLSTransport.transport
    mtObjs,           \* the request objects: the caller's and the clone
    mtSent            \* the dispatches of the call: object, content, transport

mwVars == <<mpc, req, vresp, vpayload, vcalls, result, written, nextCalls, nextCtx>>

rtVars == <<rtpc, internalDomains, smartTLS, rtReq, rtUsed, rtStore, rtPrev,
            httpClient>>

mtVars == <<mtpc, mtTransport, mtObjs, mtSent>>

vars == <<lifeVars, mwVars, rtVars, mtVars>>

\* ------------------------------------------------------------------------
\* SVIDCache.  Certificate, key and bundle texts are numbered: 0 is the
\* empty string, n > 0 the material of the n-th issued credential.
\* ------------------------------------------------------------------------
Fields == {"SVID", "PrivateKey", "Bundle", "ExpiresAt", "IssuedAt"}

EmptySVIDCache ==
    [SVID |-> 0, PrivateKey |-> 0, Bundle |-> 0,
     ExpiresAt |-> ZeroTime, IssuedAt |-> ZeroTime]

\* The n-th credential of the issuance service, issued at instant t
\* with lifetime d.
IssuedCredential(n, t, d) ==
    [SVID |-> n, PrivateKey |-> n, Bundle |-> n,
     ExpiresAt |-> t + d, IssuedAt |-> t]

NoGet == [value |-> -1, again |-> FALSE]

\* ------------------------------------------------------------------------
\* HTTP responses of the issuance service
\* ------------------------------------------------------------------------
NoResp ==
    [transport |-> FALSE, status |-> -1, bodyOK |-> FALSE,
     workloads |-> <<>>, svid |-> EmptySVIDCache]

\* HTTPClient.Do returned an error (no response).
TransportFailure ==
    [transport |-> FALSE, status |-> 0, bodyOK |-> FALSE,
     workloads |-> <<>>, svid |-> EmptySVIDCache]

HTTPResponse(s, ok, ws, c) ==
    [transport |-> TRUE, status |-> s, bodyOK |-> ok, workloads |-> ws, svid |-> c]

RegisterResponses ==
    {TransportFailure} \cup
    {HTTPResponse(s, ok, <<>>, EmptySVIDCache) : s \in Statuses, ok \in BOOLEAN}

WorkloadLists == {<<>>, <<"w1">>, <<"w2", "w1">>}

LookupResponses ==
    {TransportFailure} \cup
    {HTTPResponse(s, FALSE, <<>>, EmptySVIDCache) : s \in Statuses} \cup
    {HTTPResponse(s, TRUE, ws, EmptySVIDCache) : s \in Statuses, ws \in WorkloadLists}

\* Responses to POST /workloads/{id}/svid carrying no credential.
FetchFailures ==
    {TransportFailure} \cup
    {HTTPResponse(s, FALSE, <<>>, EmptySVIDCache) : s \in Statuses}

\* Responses carrying credential c.
FetchBodies(c) == {HTTPResponse(s, TRUE, <<>>, c) : s \in Statuses}

\* ------------------------------------------------------------------------
\* HeadlessAPI : the result of each call as a function of the response
\* ------------------------------------------------------------------------
\* RegisterAndIssueSVID: the error returned ("nil" for none).
RegisterAndIssueSVID(r) ==
    IF ~r.transport THEN "send"
    ELSE IF r.status # StatusCreated THEN "status"
    ELSE "nil"

\* (mutant) the first request without its status check.
GetOrRefreshSVID_lookup_anyStatus(r) ==
    IF ~r.transport THEN "send"
    ELSE IF ~r.bodyOK THEN "decode"
    ELSE IF Len(r.workloads) = 0 THEN "notfound"
    ELSE "nil"

\* GetOrRefreshSVID, first request (list workloads).
GetOrRefreshSVID_lookup(r) ==
    IF ~r.transport THEN "send"
    ELSE IF r.status # StatusOK THEN "status"
    ELSE IF ~r.bodyOK THEN "decode"
    ELSE IF Len(r.workloads) = 0 THEN "notfound"
    ELSE "nil"

\* GetOrRefreshSVID, second request (issue SVID).
GetOrRefreshSVID_svid(r) ==
    IF ~r.transport THEN "send"
    ELSE IF r.status # StatusCreated THEN "status"
    ELSE IF ~r.bodyOK THEN "decode"
    ELSE "nil"

\* ------------------------------------------------------------------------
\* Initial state: the state when NewSpiffeSDK returns
\* ------------------------------------------------------------------------
InitLife ==
    /\ config \in [RenewalThreshold : RenewalThresholds, CheckInterval : CheckIntervals]
    /\ now = ZeroTime + 1
    /\ currentSVID = EmptySVIDCache
    /\ muWriter = NoTask
    /\ muReaders = {}
    /\ cancelled = FALSE
    /\ workloadAPI \in BOOLEAN      \* _ = sdk.initWorkloadAPI()
    /\ tlsConfig = FALSE
    /\ ipc = [i \in InitIds |-> "idle"]
    /\ lpc = [i \in InitIds |-> "off"]
    /\ rf = [t \in Callers |-> "none"]
    /\ resp = [t \in Callers |-> NoResp]
    /\ workloadID = [t \in Callers |-> None]
    /\ svid = [t \in Callers |-> EmptySVIDCache]
    /\ timeToExpiry = [i \in InitIds |-> 0]
    /\ tickPending = [i \in InitIds |-> FALSE]
    /\ nextTick = [i \in InitIds |-> 0]
    /\ gpc = [r \in Readers |-> "idle"]
    /\ issuedCount = 0
    /\ origin = [f \in Fields |-> 0]
    /\ nominal = TRUE
    /\ setCount = 0
    /\ tickFetches = [i \in InitIds |-> -1]    \* -1: no tick handled yet
    /\ lastGet = [r \in Readers |-> NoGet]
    /\ seen = [r \in Readers |-> 0]
    /\ initErr = [i \in InitIds |-> "none"]
    /\ retryDue = [i \in InitIds |-> FALSE]
    /\ ticksAfterCancel = [i \in InitIds |-> 0]

\* ------------------------------------------------------------------------
\* sync.RWMutex of SVIDCache
\* ------------------------------------------------------------------------
\* (mutant) Lock that does not wait for the readers.
CanLock_ignoresReaders == muWriter = NoTask

\* mu.Lock() returns: no writer and no reader holds the lock.
CanLock == muWriter = NoTask /\ muReaders = {}

\* (mutant) RLock that does not wait for the writer.
CanRLock_ignoresWriter == TRUE

\* mu.RLock() returns: no writer holds the lock.  (A reader is not held
\* back here by a writer that only waits: more interleavings than Go's
\* RWMutex admits, none fewer.)
CanRLock == muWriter = NoTask

\* ------------------------------------------------------------------------
\* refreshSVID, run by caller t (an Initialize call or a renewal loop)
\* ------------------------------------------------------------------------
\* (mutant) refreshSVID takes the lock first and calls the service under it.
Lookup_underLock(t) ==
    /\ rf[t] = "lookup"
    /\ CanLock
    /\ muWriter' = t
    /\ \E r \in LookupResponses : resp' = [resp EXCEPT ![t] = r]
    /\ rf' = [rf EXCEPT ![t] = "lookupRet"]
    /\ UNCHANGED <<config, now, currentSVID, muReaders, cancelled, sdkVars,
                   ipc, initErr, loopVars, workloadID, svid, getVars,
                   issuedCount, origin, nominal, setCount, mwVars, rtVars,
                   mtVars>>

\* GetOrRefreshSVID: GET /workloads?spiffe_id=... returns.
Lookup(t) ==
    /\ rf[t] = "lookup"
    /\ \E r \in LookupResponses : resp' = [resp EXCEPT ![t] = r]
    /\ rf' = [rf EXCEPT ![t] = "lookupRet"]
    /\ UNCHANGED <<config, now, currentSVID, lockVars, cancelled, sdkVars, ipc,
                   initErr, loopVars, workloadID, svid, getVars, issuedCount,
                   origin, nominal, setCount, mwVars, rtVars, mtVars>>

\* (mutant) the id of the last workload listed is taken.
LookupRet_lastWorkload(t) ==
    /\ rf[t] = "lookupRet"
    /\ IF GetOrRefreshSVID_lookup(resp[t]) # "nil"
       THEN /\ rf' = [rf EXCEPT ![t] = "err"]
            /\ nominal' = FALSE
            /\ UNCHANGED <<workloadID, resp>>
       ELSE /\ rf' = [rf EXCEPT ![t] = "fetch"]
            /\ workloadID' = [workloadID EXCEPT ![t] =
                  resp[t].workloads[Len(resp[t].workloads)]]
            /\ resp' = [resp EXCEPT ![t] = NoResp]
            /\ UNCHANGED nominal
    /\ UNCHANGED <<config, now, currentSVID, lockVars, cancelled, sdkVars, ipc,
                   initErr, loopVars, svid, getVars, issuedCount, origin,
                   setCount, mwVars, rtVars, mtVars>>

\* GetOrRefreshSVID: status check, decoding, first workload's id.
LookupRet(t) ==
    /\ rf[t] = "lookupRet"
    /\ IF GetOrRefreshSVID_lookup(resp[t]) # "nil"
       THEN /\ rf' = [rf EXCEPT ![t] = "err"]
            /\ nominal' = FALSE
            /\ UNCHANGED <<workloadID, resp>>
       ELSE /\ rf' = [rf EXCEPT ![t] = "fetch"]
            /\ workloadID' = [workloadID EXCEPT ![t] = resp[t].workloads[1]]
            /\ resp' = [resp EXCEPT ![t] = NoResp]
            /\ UNCHANGED nominal
    /\ UNCHANGED <<config, now, currentSVID, lockVars, cancelled, sdkVars, ipc,
                   initErr, loopVars, svid, getVars, issuedCount, origin,
                   setCount, mwVars, rtVars, mtVars>>

\* GetOrRefreshSVID: POST /workloads/{id}/svid returns.  A response that
\* carries a credential is a credential the service has issued.
Fetch(t) ==
    /\ rf[t] = "fetch"
    /\ \/ /\ \E r \in FetchFailures : resp' = [resp EXCEPT ![t] = r]
          /\ UNCHANGED <<issuedCount, nominal>>
       \/ /\ issuedCount < MaxIssue
          /\ \E d \in Lifetimes :
               LET c == IssuedCredential(issuedCount + 1, now, d) IN
               /\ issuedCount' = issuedCount + 1
               /\ nominal' = (nominal /\ d > 0)
               /\ \E r \in FetchBodies(c) : resp' = [resp EXCEPT ![t] = r]
    /\ rf' = [rf EXCEPT ![t] = "fetchRet"]
    /\ UNCHANGED <<config, now, currentSVID, lockVars, cancelled, sdkVars, ipc,
                   initErr, loopVars, workloadID, svid, getVars, origin,
                   setCount, mwVars, rtVars, mtVars>>

\* GetOrRefreshSVID: status check and decoding of the SVID response;
\* refreshSVID returns the error or goes on to the lock.
FetchRet(t) ==
    /\ rf[t] = "fetchRet"
    /\ IF GetOrRefreshSVID_svid(resp[t]) # "nil"
       THEN /\ rf' = [rf EXCEPT ![t] = "err"]
            /\ nominal' = FALSE
            /\ UNCHANGED <<svid, resp>>
       ELSE /\ rf' = [rf EXCEPT ![t] = "lock"]
            /\ svid' = [svid EXCEPT ![t] = resp[t].svid]
            /\ resp' = [resp EXCEPT ![t] = NoResp]
            /\ UNCHANGED nominal
    /\ workloadID' = [workloadID EXCEPT ![t] = None]
    /\ UNCHANGED <<config, now, currentSVID, lockVars, cancelled, sdkVars, ipc,
                   initErr, loopVars, getVars, issuedCount, origin, setCount,
                   mwVars, rtVars, mtVars>>

\* s.currentSVID.mu.Lock()
RefreshLock(t) ==
    /\ rf[t] = "lock"
    /\ CanLock
    /\ muWriter' = t
    /\ rf' = [rf EXCEPT ![t] = "wSVID"]
    /\ UNCHANGED <<config, now, currentSVID, muReaders, cancelled, sdkVars,
                   ipc, initErr, loopVars, resp, workloadID, svid, getVars,
                   issuedCount, origin, nominal, setCount, mwVars, rtVars,
                   mtVars>>

\* The field written at each position of the critical section, and the
\* position that follows.
WriteField(p) ==
    CASE p = "wSVID" -> "SVID"
      [] p = "wPrivateKey" -> "PrivateKey"
      [] p = "wBundle" -> "Bundle"
      [] p = "wExpiresAt" -> "ExpiresAt"
      [] p = "wIssuedAt" -> "IssuedAt"

WriteNext(p) ==
    CASE p = "wSVID" -> "wPrivateKey"
      [] p = "wPrivateKey" -> "wBundle"
      [] p = "wBundle" -> "wExpiresAt"
      [] p = "wExpiresAt" -> "wIssuedAt"
      [] p = "wIssuedAt" -> "unlock"

WritePositions == {"wSVID", "wPrivateKey", "wBundle", "wExpiresAt", "wIssuedAt"}

\* s.currentSVID.<field> = svid.<field>
RefreshWrite(t) ==
    /\ rf[t] \in WritePositions
    /\ currentSVID' = [currentSVID EXCEPT ![WriteField(rf[t])] = svid[t][WriteField(rf[t])]]
    /\ origin' = [origin EXCEPT ![WriteField(rf[t])] = svid[t].SVID]
    /\ rf' = [rf EXCEPT ![t] = WriteNext(rf[t])]
    /\ UNCHANGED <<config, now, lockVars, cancelled, sdkVars, ipc, initErr,
                   loopVars, resp, workloadID, svid, getVars, issuedCount,
                   nominal, setCount, mwVars, rtVars, mtVars>>

\* (mutant) the TLS configuration is set up again after each refresh.
RefreshUnlock_setsTLSConfig(t) ==
    /\ rf[t] = "unlock"
    /\ muWriter' = NoTask
    /\ rf' = [rf EXCEPT ![t] = "ok"]
    /\ setCount' = setCount + 1
    /\ lastGet' = [r \in Readers |-> NoGet]
    /\ svid' = [svid EXCEPT ![t] = EmptySVIDCache]
    /\ tlsConfig' = (IF workloadAPI THEN TRUE ELSE tlsConfig)
    /\ UNCHANGED <<config, now, currentSVID, muReaders, cancelled, workloadAPI,
                   ipc, initErr, loopVars, resp, workloadID, gpc, issuedCount,
                   origin, nominal, seen, mwVars, rtVars, mtVars>>

\* s.currentSVID.mu.Unlock(); return nil
RefreshUnlock(t) ==
    /\ rf[t] = "unlock"
    /\ muWriter' = NoTask
    /\ rf' = [rf EXCEPT ![t] = "ok"]
    /\ setCount' = setCount + 1
    /\ lastGet' = [r \in Readers |-> NoGet]
    /\ svid' = [svid EXCEPT ![t] = EmptySVIDCache]
    /\ UNCHANGED <<config, now, currentSVID, muReaders, cancelled, sdkVars,
                   ipc, initErr, loopVars, resp, workloadID, gpc, issuedCount,
                   origin, nominal, seen, mwVars, rtVars, mtVars>>

refreshSVID(t) ==
    \/ Lookup(t)
    \/ LookupRet(t)
    \/ Fetch(t)
    \/ FetchRet(t)
    \/ RefreshLock(t)
    \/ RefreshWrite(t)
    \/ RefreshUnlock(t)

\* ------------------------------------------------------------------------
\* Initialize, call i
\* ------------------------------------------------------------------------
\* Initialize is called; registerWithHeadlessAPI sends its request and
\* HTTPClient.Do returns.
InitRegister(i) ==
    /\ ipc[i] = "idle"
    /\ \E r \in RegisterResponses : resp' = [resp EXCEPT ![InitTask(i)] = r]
    /\ ipc' = [ipc EXCEPT ![i] = "registerRet"]
    /\ UNCHANGED <<config, now, currentSVID, lockVars, cancelled, sdkVars,
                   initErr, loopVars, rf, workloadID, svid, getVars,
                   issuedCount, origin, nominal, setCount, mwVars, rtVars,
                   mtVars>>

\* (mutant) step 1's error is dropped: Initialize goes on to refreshSVID.
InitRegisterRet_ignoresError(i) ==
    /\ ipc[i] = "registerRet"
    /\ resp' = [resp EXCEPT ![InitTask(i)] = NoResp]
    /\ ipc' = [ipc EXCEPT ![i] = "refresh"]
    /\ rf' = [rf EXCEPT ![InitTask(i)] = "lookup"]
    /\ workloadAPI' \in (IF workloadAPI THEN {TRUE} ELSE BOOLEAN)
    /\ UNCHANGED <<config, now, currentSVID, lockVars, cancelled, tlsConfig,
                   initErr, loopVars, workloadID, svid, getVars, issuedCount,
                   origin, nominal, setCount, mwVars, rtVars, mtVars>>

\* Step 1 returns; on success step 1.5 (initWorkloadAPI when the workload
\* API is nil, which may or may not succeed) and the call of refreshSVID.
InitRegisterRet(i) ==
    /\ ipc[i] = "registerRet"
    /\ resp' = [resp EXCEPT ![InitTask(i)] = NoResp]
    /\ IF RegisterAndIssueSVID(resp[InitTask(i)]) # "nil"
       THEN /\ ipc' = [ipc EXCEPT ![i] = "failed"]
            /\ initErr' = [initErr EXCEPT ![i] = "registration failed"]
            /\ nominal' = FALSE
            /\ UNCHANGED <<rf, workloadAPI>>
       ELSE /\ ipc' = [ipc EXCEPT ![i] = "refresh"]
            /\ rf' = [rf EXCEPT ![InitTask(i)] = "lookup"]
            /\ workloadAPI' \in (IF workloadAPI THEN {TRUE} ELSE BOOLEAN)
            /\ UNCHANGED <<nominal, initErr>>
    /\ UNCHANGED <<config, now, currentSVID, lockVars, cancelled, tlsConfig,
                   loopVars, workloadID, svid, getVars, issuedCount, origin,
                   setCount, mwVars, rtVars, mtVars>>

\* Step 2 failed: Initialize returns the error.
InitRefreshFailed(i) ==
    /\ ipc[i] = "refresh"
    /\ rf[InitTask(i)] = "err"
    /\ rf' = [rf EXCEPT ![InitTask(i)] = "none"]
    /\ resp' = [resp EXCEPT ![InitTask(i)] = NoResp]
    /\ ipc' = [ipc EXCEPT ![i] = "failed"]
    /\ initErr' = [initErr EXCEPT ![i] = "initial SVID fetch failed"]
    /\ UNCHANGED <<config, now, currentSVID, lockVars, cancelled, sdkVars,
                   loopVars, workloadID, svid, getVars, issuedCount, origin,
                   nominal, setCount, mwVars, rtVars, mtVars>>

\* (mutant) the loop is started once the credential is fetched, without
\* waiting for refreshSVID to store it.
InitFinish_beforeWrite(i) ==
    /\ ipc[i] = "refresh"
    /\ rf[InitTask(i)] = "lock"
    /\ rf' = [rf EXCEPT ![InitTask(i)] = "none"]
    /\ tlsConfig' = (IF workloadAPI THEN TRUE ELSE tlsConfig)
    /\ lpc' = [lpc EXCEPT ![i] = "start"]
    /\ ipc' = [ipc EXCEPT ![i] = "done"]
    /\ initErr' = [initErr EXCEPT ![i] = "nil"]
    /\ UNCHANGED <<config, now, currentSVID, lockVars, cancelled, workloadAPI,
                   resp, workloadID, svid, timeToExpiry, tickPending, nextTick,
                   getVars, issuedCount, origin, nominal, setCount,
                   tickFetches, retryDue, ticksAfterCancel, mwVars, rtVars,
                   mtVars>>

\* Step 2 succeeded: step 3 (setupTLSConfig when the workload API is
\* available), step 4 (go s.startAutoRenewal()), return nil.
InitFinish(i) ==
    /\ ipc[i] = "refresh"
    /\ rf[InitTask(i)] = "ok"
    /\ rf' = [rf EXCEPT ![InitTask(i)] = "none"]
    /\ tlsConfig' = (IF workloadAPI THEN TRUE ELSE tlsConfig)
    /\ lpc' = [lpc EXCEPT ![i] = "start"]
    /\ ipc' = [ipc EXCEPT ![i] = "done"]
    /\ initErr' = [initErr EXCEPT ![i] = "nil"]
    /\ UNCHANGED <<config, now, currentSVID, lockVars, cancelled, workloadAPI,
                   resp, workloadID, svid, timeToExpiry, tickPending, nextTick,
                   getVars, issuedCount, origin, nominal, setCount,
                   tickFetches, retryDue, ticksAfterCancel, mwVars, rtVars,
                   mtVars>>

Initialize(i) ==
    \/ InitRegister(i)
    \/ InitRegisterRet(i)
    \/ refreshSVID(InitTask(i))
    \/ InitRefreshFailed(i)
    \/ InitFinish(i)

\* ------------------------------------------------------------------------
\* startAutoRenewal, the loop started by Initialize call i
\* ------------------------------------------------------------------------
\* (mutant) the comparison the field's comment describes, "TTL < threshold".
ShouldRenew_strict(tte) == tte < config.RenewalThreshold

\* timeToExpiry <= s.config.RenewalThreshold
ShouldRenew(tte) == tte <= config.RenewalThreshold

\* ticker := time.NewTicker(s.config.CheckInterval)
LoopStart(i) ==
    /\ lpc[i] = "start"
    /\ nextTick' = [nextTick EXCEPT ![i] = now + config.CheckInterval]
    /\ lpc' = [lpc EXCEPT ![i] = "select"]
    /\ UNCHANGED <<config, now, currentSVID, lockVars, cancelled, sdkVars, ipc,
                   initErr, callVars, timeToExpiry, tickPending, getVars,
                   issuedCount, origin, nominal, setCount, tickFetches,
                   retryDue, ticksAfterCancel, mwVars, rtVars, mtVars>>

\* case <-s.ctx.Done(): return   (the deferred ticker.Stop() runs)
LoopDone(i) ==
    /\ lpc[i] = "select"
    /\ cancelled
    /\ lpc' = [lpc EXCEPT ![i] = "exited"]
    /\ tickPending' = [tickPending EXCEPT ![i] = FALSE]
    /\ UNCHANGED <<config, now, currentSVID, lockVars, cancelled, sdkVars, ipc,
                   initErr, callVars, timeToExpiry, nextTick, getVars,
                   issuedCount, origin, nominal, setCount, tickFetches,
                   retryDue, ticksAfterCancel, mwVars, rtVars, mtVars>>

\* case <-ticker.C:
LoopTick(i) ==
    /\ lpc[i] = "select"
    /\ tickPending[i]
    /\ tickPending' = [tickPending EXCEPT ![i] = FALSE]
    /\ tickFetches' = [tickFetches EXCEPT ![i] = 0]
    /\ ticksAfterCancel' = [ticksAfterCancel EXCEPT ![i] =
          IF cancelled THEN ticksAfterCancel[i] + 1 ELSE ticksAfterCancel[i]]
    /\ lpc' = [lpc EXCEPT ![i] = "rlock"]
    /\ UNCHANGED <<config, now, currentSVID, lockVars, cancelled, sdkVars, ipc,
                   initErr, callVars, timeToExpiry, nextTick, getVars,
                   issuedCount, origin, nominal, setCount, retryDue, mwVars,
                   rtVars, mtVars>>

\* s.currentSVID.mu.RLock()
LoopRLock(i) ==
    /\ lpc[i] = "rlock"
    /\ CanRLock
    /\ muReaders' = muReaders \cup {LoopTask(i)}
    /\ lpc' = [lpc EXCEPT ![i] = "read"]
    /\ UNCHANGED <<config, now, currentSVID, muWriter, cancelled, sdkVars, ipc,
                   initErr, callVars, timeToExpiry, tickPending, nextTick,
                   getVars, issuedCount, origin, nominal, setCount,
                   tickFetches, retryDue, ticksAfterCancel, mwVars, rtVars,
                   mtVars>>

\* timeToExpiry := time.Until(s.currentSVID.ExpiresAt)
LoopRead(i) ==
    /\ lpc[i] = "read"
    /\ timeToExpiry' = [timeToExpiry EXCEPT ![i] = currentSVID.ExpiresAt - now]
    /\ lpc' = [lpc EXCEPT ![i] = "runlock"]
    /\ UNCHANGED <<config, now, currentSVID, lockVars, cancelled, sdkVars, ipc,
                   initErr, callVars, tickPending, nextTick, getVars,
                   issuedCount, origin, nominal, setCount, tickFetches,
                   retryDue, ticksAfterCancel, mwVars, rtVars, mtVars>>

\* (mutant) the loop goes on to its check without releasing the read lock.
LoopRUnlock_keepsLock(i) ==
    /\ lpc[i] = "runlock"
    /\ lpc' = [lpc EXCEPT ![i] = "check"]
    /\ UNCHANGED <<config, now, currentSVID, lockVars, cancelled, sdkVars, ipc,
                   initErr, callVars, timeToExpiry, tickPending, nextTick,
                   getVars, issuedCount, origin, nominal, setCount,
                   tickFetches, retryDue, ticksAfterCancel, mwVars, rtVars,
                   mtVars>>

\* s.currentSVID.mu.RUnlock()
LoopRUnlock(i) ==
    /\ lpc[i] = "runlock"
    /\ muReaders' = muReaders \ {LoopTask(i)}
    /\ lpc' = [lpc EXCEPT ![i] = "check"]
    /\ UNCHANGED <<config, now, currentSVID, muWriter, cancelled, sdkVars, ipc,
                   initErr, callVars, timeToExpiry, tickPending, nextTick,
                   getVars, issuedCount, origin, nominal, setCount,
                   tickFetches, retryDue, ticksAfterCancel, mwVars, rtVars,
                   mtVars>>

\* (mutant) a failed renewal is remembered and not tried again at the next
\* tick.
LoopCheck_noRetry(i) ==
    /\ lpc[i] = "check"
    /\ IF ShouldRenew(timeToExpiry[i]) /\ ~retryDue[i]
       THEN /\ lpc' = [lpc EXCEPT ![i] = "refresh"]
            /\ rf' = [rf EXCEPT ![LoopTask(i)] = "lookup"]
            /\ tickFetches' = [tickFetches EXCEPT ![i] = tickFetches[i] + 1]
       ELSE /\ lpc' = [lpc EXCEPT ![i] = "select"]
            /\ UNCHANGED <<rf, tickFetches>>
    /\ retryDue' = [retryDue EXCEPT ![i] = FALSE]
    /\ UNCHANGED <<config, now, currentSVID, lockVars, cancelled, sdkVars, ipc,
                   initErr, resp, workloadID, svid, timeToExpiry, tickPending,
                   nextTick, getVars, issuedCount, origin, nominal, setCount,
                   ticksAfterCancel, mwVars, rtVars, mtVars>>

\* if timeToExpiry <= s.config.RenewalThreshold { s.refreshSVID() ... }
LoopCheck(i) ==
    /\ lpc[i] = "check"
    /\ IF ShouldRenew(timeToExpiry[i])
       THEN /\ lpc' = [lpc EXCEPT ![i] = "refresh"]
            /\ rf' = [rf EXCEPT ![LoopTask(i)] = "lookup"]
            /\ tickFetches' = [tickFetches EXCEPT ![i] = tickFetches[i] + 1]
       ELSE /\ lpc' = [lpc EXCEPT ![i] = "select"]
            /\ UNCHANGED <<rf, tickFetches>>
    /\ retryDue' = [retryDue EXCEPT ![i] = FALSE]
    /\ UNCHANGED <<config, now, currentSVID, lockVars, cancelled, sdkVars, ipc,
                   initErr, resp, workloadID, svid, timeToExpiry, tickPending,
                   nextTick, getVars, issuedCount, origin, nominal, setCount,
                   ticksAfterCancel, mwVars, rtVars, mtVars>>

\* (mutant) a failed renewal ends the loop.
LoopRefreshFailed_fatal(i) ==
    /\ lpc[i] = "refresh"
    /\ rf[LoopTask(i)] = "err"
    /\ rf' = [rf EXCEPT ![LoopTask(i)] = "none"]
    /\ resp' = [resp EXCEPT ![LoopTask(i)] = NoResp]
    /\ lpc' = [lpc EXCEPT ![i] = "exited"]
    /\ retryDue' = [retryDue EXCEPT ![i] = TRUE]
    /\ UNCHANGED <<config, now, currentSVID, lockVars, cancelled, sdkVars, ipc,
                   initErr, workloadID, svid, timeToExpiry, tickPending,
                   nextTick, getVars, issuedCount, origin, nominal, setCount,
                   tickFetches, ticksAfterCancel, mwVars, rtVars, mtVars>>

\* refreshSVID returned an error: the error is printed, the loop goes on.
LoopRefreshFailed(i) ==
    /\ lpc[i] = "refresh"
    /\ rf[LoopTask(i)] = "err"
    /\ rf' = [rf EXCEPT ![LoopTask(i)] = "none"]
    /\ resp' = [resp EXCEPT ![LoopTask(i)] = NoResp]
    /\ lpc' = [lpc EXCEPT ![i] = "select"]
    /\ retryDue' = [retryDue EXCEPT ![i] = TRUE]
    /\ UNCHANGED <<config, now, currentSVID, lockVars, cancelled, sdkVars, ipc,
                   initErr, workloadID, svid, timeToExpiry, tickPending,
                   nextTick, getVars, issuedCount, origin, nominal, setCount,
                   tickFetches, ticksAfterCancel, mwVars, rtVars, mtVars>>

\* refreshSVID returned nil: s.currentSVID.ExpiresAt is read, without the
\* lock, for the message printed.
LoopRenewed(i) ==
    /\ lpc[i] = "refresh"
    /\ rf[LoopTask(i)] = "ok"
    /\ rf' = [rf EXCEPT ![LoopTask(i)] = "none"]
    /\ lpc' = [lpc EXCEPT ![i] = "select"]
    /\ UNCHANGED <<config, now, currentSVID, lockVars, cancelled, sdkVars, ipc,
                   initErr, resp, workloadID, svid, timeToExpiry, tickPending,
                   nextTick, getVars, issuedCount, origin, nominal, setCount,
                   tickFetches, retryDue, ticksAfterCancel, mwVars, rtVars,
                   mtVars>>

startAutoRenewal(i) ==
    \/ LoopStart(i)
    \/ LoopDone(i)
    \/ LoopTick(i)
    \/ LoopRLock(i)
    \/ LoopRead(i)
    \/ LoopRUnlock(i)
    \/ LoopCheck(i)
    \/ refreshSVID(LoopTask(i))
    \/ LoopRefreshFailed(i)
    \/ LoopRenewed(i)

\* ------------------------------------------------------------------------
\* GetCurrentSVID, caller r
\* ------------------------------------------------------------------------
\* s.currentSVID.mu.RLock()
GetRLock(r) ==
    /\ gpc[r] = "idle"
    /\ CanRLock
    /\ muReaders' = muReaders \cup {GetTask(r)}
    /\ gpc' = [gpc EXCEPT ![r] = "read"]
    /\ UNCHANGED <<config, now, currentSVID, muWriter, cancelled, sdkVars, ipc,
                   initErr, loopVars, callVars, issuedCount, origin, nominal,
                   setCount, lastGet, seen, mwVars, rtVars, mtVars>>

\* return s.currentSVID.SVID   (the result is evaluated)
GetRead(r) ==
    /\ gpc[r] = "read"
    /\ lastGet' = [lastGet EXCEPT ![r] =
          [value |-> currentSVID.SVID, again |-> lastGet[r] # NoGet]]
    /\ seen' = [seen EXCEPT ![r] =
          IF currentSVID.SVID > seen[r] THEN currentSVID.SVID ELSE seen[r]]
    /\ gpc' = [gpc EXCEPT ![r] = "runlock"]
    /\ UNCHANGED <<config, now, currentSVID, lockVars, cancelled, sdkVars, ipc,
                   initErr, loopVars, callVars, issuedCount, origin, nominal,
                   setCount, mwVars, rtVars, mtVars>>

\* defer s.currentSVID.mu.RUnlock()
GetRUnlock(r) ==
    /\ gpc[r] = "runlock"
    /\ muReaders' = muReaders \ {GetTask(r)}
    /\ gpc' = [gpc EXCEPT ![r] = "idle"]
    /\ UNCHANGED <<config, now, currentSVID, muWriter, cancelled, sdkVars, ipc,
                   initErr, loopVars, callVars, issuedCount, origin, nominal,
                   setCount, lastGet, seen, mwVars, rtVars, mtVars>>

GetCurrentSVID(r) ==
    \/ GetRLock(r)
    \/ GetRead(r)
    \/ GetRUnlock(r)

\* ------------------------------------------------------------------------
\* Close
\* ------------------------------------------------------------------------
\* s.cancel(); the workload API source is closed when there is one.
Close ==
    /\ ~cancelled
    /\ cancelled' = TRUE
    /\ UNCHANGED <<config, now, currentSVID, lockVars, sdkVars, ipc, initErr,
                   loopVars, callVars, getVars, issuedCount, origin, nominal,
                   setCount, mwVars, rtVars, mtVars>>

\* ------------------------------------------------------------------------
\* The clock and the tickers
\* ------------------------------------------------------------------------
TickerRunning(i) == lpc[i] \notin {"off", "start", "exited"}

\* One unit of time passes.  A running ticker whose instant has come puts
\* a tick in its channel (a tick is dropped when one is still waiting) and
\* schedules the next one CheckInterval later.
Advance ==
    /\ now < MaxTime
    /\ now' = now + 1
    /\ tickPending' = [i \in InitIds |->
          IF TickerRunning(i) /\ nextTick[i] = now + 1 THEN TRUE ELSE tickPending[i]]
    /\ nextTick' = [i \in InitIds |->
          IF TickerRunning(i) /\ nextTick[i] = now + 1
          THEN nextTick[i] + config.CheckInterval ELSE nextTick[i]]
    /\ UNCHANGED <<config, currentSVID, lockVars, cancelled, sdkVars, ipc,
                   initErr, lpc, callVars, timeToExpiry, getVars, issuedCount,
                   origin, nominal, setCount, tickFetches, retryDue,
                   ticksAfterCancel, mwVars, rtVars, mtVars>>

\* ------------------------------------------------------------------------
\* VerifyCertificate and the incoming validation middleware
\* ------------------------------------------------------------------------
NoIdentity == "<no value>"     \* ctx.Value("spiffe_id") == nil
NoCert == "<none>"
PeerCerts == {"certA", "certB"}
Identities == {"", "spiffe://authsec.dev/a", "spiffe://authsec.dev/b"}

\* Inbound requests: no TLS state, or a TLS state with 0..2 certificates.
Requests ==
    {[tls |-> FALSE, certs |-> <<>>]} \cup
    {[tls |-> TRUE, certs |-> cs] :
        cs \in {<<>>} \cup {<<c>> : c \in PeerCerts}
                     \cup {p \in PeerCerts \X PeerCerts : p[1] # p[2]}}

NoRequest == [tls |-> FALSE, certs |-> <<>>]

\* Responses of POST /api/v1/verify/certificate: a body that does not decode
\* as JSON, or one that decodes to valid and spiffe_id (absent fields decode
\* to false and "").
NoVerifyResp ==
    [transport |-> FALSE, status |-> -1, bodyOK |-> FALSE, valid |-> FALSE, spiffe_id |-> ""]

VerifyTransportFailure ==
    [transport |-> FALSE, status |-> 0, bodyOK |-> FALSE, valid |-> FALSE, spiffe_id |-> ""]

VerifyStatuses == {StatusOK, StatusUnauthorized, 500}

VerifyResponses ==
    {VerifyTransportFailure} \cup
    {[transport |-> TRUE, status |-> s, bodyOK |-> FALSE, valid |-> FALSE, spiffe_id |-> ""] :
        s \in VerifyStatuses} \cup
    {[transport |-> TRUE, status |-> s, bodyOK |-> TRUE, valid |-> v, spiffe_id |-> id] :
        s \in VerifyStatuses, v \in BOOLEAN, id \in Identities}

NoResult == [err |-> "nil", Valid |-> FALSE, SPIFFEID |-> ""]

\* HeadlessAPI.VerifyCertificate: the error and the decoded ValidationResult
\* as a function of the response.  The status code is not looked at.
VerifyCertificate(r) ==
    IF ~r.transport THEN [err |-> "send", Valid |-> FALSE, SPIFFEID |-> ""]
    ELSE IF ~r.bodyOK THEN [err |-> "decode", Valid |-> FALSE, SPIFFEID |-> ""]
    ELSE [err |-> "nil", Valid |-> r.valid, SPIFFEID |-> r.spiffe_id]

\* certToPEM: a PEM block of type CERTIFICATE around the certificate's bytes.
certToPEM(cert) == [Type |-> "CERTIFICATE", Bytes |-> cert]

\* r.TLS != nil && len(r.TLS.PeerCertificates) > 0
HasPeerCertificate(r) == r.tls /\ Len(r.certs) > 0

\* (mutant) the certificate at the end of the chain.
ClientCert_last(r) == r.certs[Len(r.certs)]

\* clientCert := r.TLS.PeerCertificates[0]
ClientCert(r) == r.certs[1]

InitMW ==
    /\ mpc = "idle"
    /\ req = NoRequest
    /\ vresp = NoVerifyResp
    /\ vpayload = certToPEM(NoCert)
    /\ vcalls = 0
    /\ result = NoResult
    /\ written = 0
    /\ nextCalls = 0
    /\ nextCtx = NoIdentity

\* A request reaches the handler function returned by
\* IncomingValidationMiddleware; its context carries no "spiffe_id".
MWRequest ==
    /\ mpc \in {"idle", "done"}
    /\ req' \in Requests
    /\ mpc' = "entry"
    /\ vresp' = NoVerifyResp
    /\ vpayload' = certToPEM(NoCert)
    /\ vcalls' = 0
    /\ result' = NoResult
    /\ written' = 0
    /\ nextCalls' = 0
    /\ nextCtx' = NoIdentity
    /\ UNCHANGED <<lifeVars, rtVars, mtVars>>

\* A peer certificate is present: the first one is encoded and sent by
\* ValidateIncomingSVID; HTTPClient.Do returns.
MWVerify ==
    /\ mpc = "entry"
    /\ HasPeerCertificate(req)
    /\ vpayload' = certToPEM(ClientCert(req))
    /\ vcalls' = vcalls + 1
    /\ vresp' \in VerifyResponses
    /\ mpc' = "verifyRet"
    /\ UNCHANGED <<lifeVars, req, result, written, nextCalls, nextCtx, rtVars,
                   mtVars>>

\* (mutant) the rejection without its return statement.
MWVerifyRet_noReturn ==
    /\ mpc = "verifyRet"
    /\ result' = VerifyCertificate(vresp)
    /\ IF result'.err # "nil" \/ ~result'.Valid
       THEN /\ written' = StatusUnauthorized
            /\ nextCalls' = nextCalls + 1
            /\ UNCHANGED nextCtx
       ELSE /\ nextCtx' = result'.SPIFFEID
            /\ nextCalls' = nextCalls + 1
            /\ UNCHANGED written
    /\ mpc' = "done"
    /\ UNCHANGED <<lifeVars, req, vresp, vpayload, vcalls, rtVars, mtVars>>

\* VerifyCertificate returns.  An error or Valid = false: http.Error with
\* 401 and return.  Otherwise the SPIFFE ID is put in the request context
\* and next.ServeHTTP is called.
MWVerifyRet ==
    /\ mpc = "verifyRet"
    /\ result' = VerifyCertificate(vresp)
    /\ IF result'.err # "nil" \/ ~result'.Valid
       THEN /\ written' = StatusUnauthorized
            /\ UNCHANGED <<nextCalls, nextCtx>>
       ELSE /\ nextCtx' = result'.SPIFFEID
            /\ nextCalls' = nextCalls + 1
            /\ UNCHANGED written
    /\ mpc' = "done"
    /\ UNCHANGED <<lifeVars, req, vresp, vpayload, vcalls, rtVars, mtVars>>

\* (mutant) a request without certificate is rejected.
MWPassThrough_rejects ==
    /\ mpc = "entry"
    /\ ~HasPeerCertificate(req)
    /\ written' = StatusUnauthorized
    /\ mpc' = "done"
    /\ UNCHANGED <<lifeVars, req, vresp, vpayload, vcalls, result, nextCalls,
                   nextCtx, rtVars, mtVars>>

\* No TLS state or no peer certificate: next.ServeHTTP is called with the
\* request as it came.
MWPassThrough ==
    /\ mpc = "entry"
    /\ ~HasPeerCertificate(req)
    /\ nextCalls' = nextCalls + 1
    /\ mpc' = "done"
    /\ UNCHANGED <<lifeVars, req, vresp, vpayload, vcalls, result, written,
                   nextCtx, rtVars, mtVars>>

IncomingValidationMiddleware ==
    \/ MWRequest
    \/ MWVerify
    \/ MWVerifyRet
    \/ MWPassThrough

\* ------------------------------------------------------------------------
\* GetHTTPClient
\* ------------------------------------------------------------------------
\* The client returned: its transport's TLSClientConfig is s.tlsConfig
\* (TRUE: not nil).
GetHTTPClient == [Transport |-> [TLSClientConfig |-> tlsConfig], Timeout |-> 30]

\* No client has been returned yet.
NoClient == [Transport |-> [TLSClientConfig |-> FALSE], Timeout |-> 0]

\* A call of GetHTTPClient: the caller keeps the client returned.
GetHTTPClientCall ==
    /\ httpClient = NoClient
    /\ httpClient' = GetHTTPClient
    /\ UNCHANGED <<lifeVars, mwVars, rtpc, internalDomains, smartTLS, rtReq,
                   rtUsed, rtStore, rtPrev, mtVars>>

\* ------------------------------------------------------------------------
\* NewInternalHTTPClient and smartTransport.  Strings are sequences of
\* one-character strings.
\* ------------------------------------------------------------------------
Chars == {".", "a"}

Strings(n) == UNION {[1..k -> Chars] : k \in 0..n}

\* The rule list and the hosts of the documentation's example.
ExampleRules == <<<<".", "s", "v", "c", ".", "c", "l", "u", "s", "t", "e", "r", ".", "l", "o", "c", "a", "l">>, <<"a", "u", "t", "h", "s", "e", "c">>>>
ExampleHostA == <<"a", ".", "a", "u", "t", "h", "s", "e", "c", ".", "s", "v", "c", ".", "c", "l", "u", "s", "t", "e", "r", ".", "l", "o", "c", "a", "l">>
ExampleHostB == <<"p", "a", "y", "m", "e", "n", "t", "-", "s", "e", "r", "v", "i", "c", "e", ".", "a", "u", "t", "h", "s", "e", "c">>
ExampleHostC == <<"e", "x", "t", "e", "r", "n", "a", "l", ".", "e", "x", "a", "m", "p", "l", "e", ".", "c", "o", "m">>
ExampleHosts == {ExampleHostA, ExampleHostB, ExampleHostC}

Rules == Strings(MaxRuleLen)
RuleCounts == {0, 1, 2}
RuleLists == UNION {[1..k -> Rules] : k \in RuleCounts}
HostNames == Strings(MaxHostLen)

\* Requests: req.URL.Host and req.Host.
RequestsTo(hosts) ==
    {[URLHost |-> h, Host |-> g] : h \in hosts \ {<<>>}, g \in {<<>>, <<"a">>}} \cup
    {[URLHost |-> <<>>, Host |-> g] : g \in hosts}

\* The port of the services the examples call ("...svc.cluster.local:8080"),
\* and requests whose URL authority is a host of `hosts` followed by it.
Port == <<":", "8", "0", "8", "0">>
RequestsToPort(hosts) ==
    {[URLHost |-> h \o Port, Host |-> <<>>] : h \in hosts \ {<<>>}}

NoRoundTrip == [URLHost |-> <<>>, Host |-> <<>>]
NoPrev == [used |-> <<>>, store |-> -1]

\* host := req.URL.Host; if host == "" { host = req.Host }
RequestHost(r) == IF r.URLHost = <<>> THEN r.Host ELSE r.URLHost

\* (mutant) a suffix test that accepts the whole string only.
hasSuffix_wholeString(str, suffix) == str = suffix

\* len(s) >= len(suffix) && s[len(s)-len(suffix):] == suffix
hasSuffix(str, suffix) ==
    /\ Len(str) >= Len(suffix)
    /\ SubSeq(str, Len(str) - Len(suffix) + 1, Len(str)) = suffix

\* The two conditions of the loop body for one rule.
RuleSelectsMTLS(host, domain) ==
    \/ host = domain
    \/ (Len(domain) > 0 /\ domain[1] = "." /\ hasSuffix(host, domain))
    \/ /\ Len(domain) > 1
       /\ domain[1] # "."
       /\ (host = domain \/ hasSuffix(host, <<".">> \o domain))

\* The loop over t.internalDomains from index k on: the transports the
\* request is dispatched to.
RECURSIVE RouteFrom(_, _, _)
RouteFrom(host, domains, k) ==
    IF k > Len(domains) THEN <<"regular">>
    ELSE IF RuleSelectsMTLS(host, domains[k]) THEN <<"mtls">>
    ELSE RouteFrom(host, domains, k + 1)

\* (mutant) mTLS is chosen only once the SDK has a TLS configuration.
smartTransport_route_needsTLSConfig(host, domains) ==
    IF tlsConfig THEN RouteFrom(host, domains, 1) ELSE <<"regular">>

smartTransport_route(host, domains) == RouteFrom(host, domains, 1)

InitRT ==
    /\ rtpc = "noclient"
    /\ internalDomains = <<>>
    /\ smartTLS = FALSE
    /\ rtReq = NoRoundTrip
    /\ rtUsed = <<>>
    /\ rtStore = -1
    /\ rtPrev = NoPrev
    /\ httpClient = NoClient

\* NewInternalHTTPClient(internalDomains), with a rule list of `lists`.
NewInternalHTTPClient(lists) ==
    /\ rtpc = "noclient"
    /\ internalDomains' \in lists
    /\ smartTLS' = tlsConfig
    /\ rtpc' = "idle"
    /\ UNCHANGED <<lifeVars, mwVars, rtReq, rtUsed, rtStore, rtPrev,
                   httpClient, mtVars>>

\* A request of `reqs` is given to the client: smartTransport.RoundTrip is
\* called with it.
RoundTripCall(reqs) ==
    /\ rtpc \in {"idle", "done"}
    /\ \E r \in reqs :
         /\ rtReq' = r
         /\ rtPrev' = IF rtpc = "done" /\ RequestHost(rtReq) = RequestHost(r)
                      THEN [used |-> rtUsed, store |-> rtStore]
                      ELSE NoPrev
    /\ rtUsed' = <<>>
    /\ rtStore' = -1
    /\ rtpc' = "called"
    /\ UNCHANGED <<lifeVars, mwVars, internalDomains, smartTLS, httpClient,
                   mtVars>>

\* (mutant) only the first rule of the list is looked at.
smartTransport_RoundTrip_firstRuleOnly ==
    /\ rtpc = "called"
    /\ rtUsed' = IF /\ Len(internalDomains) > 0
                    /\ RuleSelectsMTLS(RequestHost(rtReq), internalDomains[1])
                 THEN <<"mtls">> ELSE <<"regular">>
    /\ rtStore' = currentSVID.SVID
    /\ rtpc' = "done"
    /\ UNCHANGED <<lifeVars, mwVars, internalDomains, smartTLS, rtReq, rtPrev,
                   httpClient, mtVars>>

\* smartTransport.RoundTrip(req): the host, the loop over the rules, the
\* dispatch.
smartTransport_RoundTrip ==
    /\ rtpc = "called"
    /\ rtUsed' = smartTransport_route(RequestHost(rtReq), internalDomains)
    /\ rtStore' = currentSVID.SVID
    /\ rtpc' = "done"
    /\ UNCHANGED <<lifeVars, mwVars, internalDomains, smartTLS, rtReq, rtPrev,
                   httpClient, mtVars>>

\* ------------------------------------------------------------------------
\* OutgoingAttachmentMiddleware and spiffeMTLSTransport
\* ------------------------------------------------------------------------
\* t.transport: nil, the RoundTripper given to OutgoingAttachmentMiddleware,
\* or the http.Transport built by RoundTrip with the TLS configuration
\* (tls: it is not nil) the SDK had then.
NilTransport == [kind |-> "nil", tls |-> FALSE]
SuppliedTransport == [kind |-> "supplied", tls |-> FALSE]
BuiltTransport(cfg) == [kind |-> "built", tls |-> cfg]

\* What a request object holds; a transport may change the object it is
\* given.
NoObject == [Header |-> "<no object>"]
CallerRequest == [Header |-> "as sent"]
RequestAfterTransport == {[Header |-> "as sent"], [Header |-> "changed"]}

InitMT ==
    /\ mtpc = "none"
    /\ mtTransport = NilTransport
    /\ mtObjs = [orig |-> NoObject, clone |-> NoObject]
    /\ mtSent = <<>>

\* OutgoingAttachmentMiddleware(rt), rt nil or not.
OutgoingAttachmentMiddleware ==
    /\ mtpc = "none"
    /\ mtTransport' \in {NilTransport, SuppliedTransport}
    /\ mtpc' = "idle"
    /\ UNCHANGED <<lifeVars, mwVars, rtVars, mtObjs, mtSent>>

\* A caller gives its request to spiffeMTLSTransport.RoundTrip.
MTRoundTripCall ==
    /\ mtpc \in {"idle", "done"}
    /\ mtObjs' = [orig |-> CallerRequest, clone |-> NoObject]
    /\ mtSent' = <<>>
    /\ mtpc' = "called"
    /\ UNCHANGED <<lifeVars, mwVars, rtVars, mtTransport>>

\* (mutant) the request itself is dispatched, not a clone.
spiffeMTLSTransport_RoundTrip_noClone ==
    /\ mtpc = "called"
    /\ LET via == IF mtTransport.kind = "nil" THEN BuiltTransport(tlsConfig)
                  ELSE mtTransport
       IN /\ mtTransport' = via
          /\ mtSent' = Append(mtSent,
                 [obj |-> "orig", content |-> mtObjs.orig, via |-> via])
          /\ \E after \in RequestAfterTransport :
                mtObjs' = [mtObjs EXCEPT !.orig = after]
    /\ mtpc' = "done"
    /\ UNCHANGED <<lifeVars, mwVars, rtVars>>

\* spiffeMTLSTransport.RoundTrip(req): req is cloned; a nil t.transport is
\* replaced by a transport built with t.sdk.tlsConfig; the clone is
\* dispatched through t.transport, which may change the object it is given.
spiffeMTLSTransport_RoundTrip ==
    /\ mtpc = "called"
    /\ LET via == IF mtTransport.kind = "nil" THEN BuiltTransport(tlsConfig)
                  ELSE mtTransport
       IN /\ mtTransport' = via
          /\ mtSent' = Append(mtSent,
                 [obj |-> "clone", content |-> mtObjs.orig, via |-> via])
          /\ \E after \in RequestAfterTransport :
                mtObjs' = [mtObjs EXCEPT !.clone = after]
    /\ mtpc' = "done"
    /\ UNCHANGED <<lifeVars, mwVars, rtVars>>

\* ------------------------------------------------------------------------
\* Specification of the credential lifecycle
\* ------------------------------------------------------------------------
\* Initialize is called once, as the examples do.
Next ==
    \/ Initialize("first")
    \/ startAutoRenewal("first")
    \/ \E r \in Readers : GetCurrentSVID(r)
    \/ Close
    \/ Advance

Init == InitLife /\ InitMW /\ InitRT /\ InitMT

Spec == Init /\ [][Next]_vars

\* ------------------------------------------------------------------------
\* Specification of the credential lifecycle with fair scheduling
\* ------------------------------------------------------------------------
\* The goroutine of the loop is scheduled again and again, so the step it
\* is at is taken when it stays possible (the HTTP client's timeout ends
\* every call of the service).  A caller of GetCurrentSVID that holds the
\* read lock goes on to release it.  A Lock() that waits is served: Go's
\* RWMutex lets no new reader in while a writer waits, so the readers
\* coming and going cannot keep the writer out for ever.
Fairness ==
    /\ WF_vars(startAutoRenewal("first"))
    /\ SF_vars(RefreshLock(LoopTask("first")))
    /\ \A r \in Readers : WF_vars(GetRead(r) \/ GetRUnlock(r))

SpecFair == Init /\ [][Next]_vars /\ Fairness

\* The same for every task that takes the lock: the goroutine in which
\* Initialize runs refreshSVID is scheduled like the loop's, and its Lock()
\* is served like the loop's.
FairnessOfCallers ==
    /\ Fairness
    /\ WF_vars(refreshSVID(InitTask("first")))
    /\ SF_vars(RefreshLock(InitTask("first")))

\* The lock is taken and released in the same way whatever the settings
\* are: the instance is one that checks at every unit of time and renews
\* two units before expiry, and whose workload API source was opened by
\* NewSpiffeSDK.
InitLock ==
    /\ Init
    /\ config = [RenewalThreshold |-> 2, CheckInterval |-> 1]
    /\ workloadAPI

SpecLock == InitLock /\ [][Next]_vars /\ FairnessOfCallers

\* ------------------------------------------------------------------------
\* Specification of the credential lifecycle when Initialize is called a
\* second time on the instance, at any moment before the first tick of a
\* loop: no time passes, so that a loop started by either call gets as far
\* as its select, where it waits for its first tick or for cancellation
\* ------------------------------------------------------------------------
NextTwice ==
    \/ \E i \in InitIds : Initialize(i)
    \/ \E i \in InitIds : LoopStart(i) \/ LoopDone(i)
    \/ \E r \in Readers : GetCurrentSVID(r)
    \/ Close

SpecTwice == Init /\ [][NextTwice]_vars

\* ------------------------------------------------------------------------
\* Specification of the inbound requests
\* ------------------------------------------------------------------------
NextMW == IncomingValidationMiddleware

SpecMW == Init /\ [][NextMW]_vars

\* ------------------------------------------------------------------------
\* Specification of the routing of outbound requests: every rule list and
\* every host over Chars, and the documentation's example
\* ------------------------------------------------------------------------
\* A client built with any of the rule lists is given any of the requests.
InitRouting ==
    /\ InitLife
    /\ InitMW
    /\ InitMT
    /\ rtpc = "called"
    /\ internalDomains \in RuleLists \cup {ExampleRules}
    /\ smartTLS = FALSE
    /\ rtReq \in RequestsTo(HostNames \cup ExampleHosts)
                  \cup RequestsToPort(HostNames \cup ExampleHosts)
    /\ rtUsed = <<>>
    /\ rtStore = -1
    /\ rtPrev = NoPrev
    /\ httpClient = NoClient

NextRouting == smartTransport_RoundTrip

SpecRouting == InitRouting /\ [][NextRouting]_vars

\* ------------------------------------------------------------------------
\* Specification of the outbound clients next to startup and shutdown
\* ------------------------------------------------------------------------
NextClients ==
    \/ Initialize("first")
    \/ Close
    \/ NewInternalHTTPClient({ExampleRules})
    \/ RoundTripCall(RequestsTo(ExampleHosts))
    \/ smartTransport_RoundTrip

SpecClients == Init /\ [][NextClients]_vars

\* ------------------------------------------------------------------------
\* Specification of the clients handed out next to startup, renewal and
\* shutdown
\* ------------------------------------------------------------------------
NextKept ==
    \/ Initialize("first")
    \/ startAutoRenewal("first")
    \/ Close
    \/ Advance
    \/ GetHTTPClientCall
    \/ NewInternalHTTPClient({ExampleRules})

SpecKept == Init /\ [][NextKept]_vars

\* ------------------------------------------------------------------------
\* Specification of the outgoing attachment transport next to startup and
\* shutdown
\* ------------------------------------------------------------------------
NextOutgoing ==
    \/ Initialize("first")
    \/ Close
    \/ OutgoingAttachmentMiddleware
    \/ MTRoundTripCall
    \/ spiffeMTLSTransport_RoundTrip

SpecOutgoing == Init /\ [][NextOutgoing]_vars

\* ------------------------------------------------------------------------
\* Properties of the credential lifecycle
\* ------------------------------------------------------------------------
\* The cache holds a whole credential: its five fields were copied from
\* the same response (or none was written yet), and their values are that
\* response's values, of which the text fields carry the number.
WholeCredential ==
    /\ \A f, g \in Fields : origin[f] = origin[g]
    /\ origin["SVID"] = 0 => currentSVID = EmptySVIDCache
    /\ \A f \in {"SVID", "PrivateKey", "Bundle"} : currentSVID[f] = origin[f]

Reading == (\E r \in Readers : gpc[r] = "read") \/ (\E i \in InitIds : lpc[i] = "read")

\* C1: whenever a reader (GetCurrentSVID, or the renewal loop's expiry
\* read) is at its read of the cache, the five fields of the cache are, as a
\* whole, the empty value or exactly one issued response: no mix of two.
C1_NoTornRead == Reading => WholeCredential

\* C1 witness: GetCurrentSVID reads the first credential while the renewal
\* loop, holding the second one, waits for the write lock.
C1_Witness ==
    /\ gpc["r1"] = "read"
    /\ rf[LoopTask("first")] = "lock"
    /\ currentSVID.SVID = 1
    /\ svid[LoopTask("first")].SVID = 2

\* C2: a read returns the value returned by the read before it when no
\* write of refreshSVID completed in between, and no step of GetCurrentSVID
\* changes the cache.
C2_GetIdempotent ==
    [][\A r \in Readers :
         /\ gpc'[r] # gpc[r] => currentSVID' = currentSVID
         /\ (gpc[r] = "read" /\ gpc'[r] = "runlock" /\ lastGet[r] # NoGet)
               => lastGet'[r].value = lastGet[r].value]_vars

\* C2 witness: two reads in a row between the first and the second write,
\* both returning the first credential.
C2_Witness ==
    /\ lastGet["r1"].again
    /\ lastGet["r1"].value = 1
    /\ setCount = 1
    /\ issuedCount = 2

\* C3 (as claimed): outside the critical section of refreshSVID the cache
\* satisfies ExpiresAt > IssuedAt.
C3_ExpiresAfterIssued ==
    muWriter = NoTask => currentSVID.ExpiresAt > currentSVID.IssuedAt

C5_NeverExpired ==
    (/\ ipc["first"] = "done"
     /\ ~cancelled
     /\ nominal
     /\ muWriter = NoTask)
    => now <= currentSVID.ExpiresAt

\* ------------------------------------------------------------------------
\* Properties of the incoming validation middleware
\* ------------------------------------------------------------------------
\* The verification call of the request has returned.
Verified == mpc = "done" /\ vcalls > 0

\* The call returned without error and with valid = true, as read off the
\* response: it arrived, its body decoded, and the body says valid.
VerifiedValid == vresp.transport /\ vresp.bodyOK /\ vresp.valid

\* C6: when a certificate was presented and the verification call failed
\* (no response, undecodable body) or returned valid = false, the request is
\* answered 401 and next.ServeHTTP is not called.
C6_FailClosed ==
    (Verified /\ ~VerifiedValid) => (written = StatusUnauthorized /\ nextCalls = 0)

\* C6 witness: the verification request failed in transport and the
\* request was answered 401 without reaching the handler.
C6_Witness ==
    /\ Verified
    /\ vresp = VerifyTransportFailure
    /\ result.err = "send"
    /\ written = StatusUnauthorized
    /\ nextCalls = 0

\* C7: when certificates were presented, the one sent for verification is
\* the first, encoded by certToPEM, in a single call; when the response says
\* valid = true, next.ServeHTTP is called exactly once, with the response's
\* spiffe_id under the context key, and nothing is written before it.
C7_VerifiedIdentityAttached ==
    Verified =>
        /\ vcalls = 1
        /\ vpayload = [Type |-> "CERTIFICATE", Bytes |-> req.certs[1]]
        /\ VerifiedValid =>
              (nextCalls = 1 /\ nextCtx = vresp.spiffe_id /\ written = 0)

\* C7 witness: two certificates presented, the first verified valid with an
\* identity, the handler called with it.
C7_Witness ==
    /\ Verified
    /\ req.certs = <<"certB", "certA">>
    /\ vpayload.Bytes = "certB"
    /\ VerifiedValid
    /\ vresp.spiffe_id = "spiffe://authsec.dev/a"
    /\ nextCalls = 1
    /\ nextCtx = "spiffe://authsec.dev/a"

\* C8: a request without TLS state or without peer certificate causes no
\* verification call and reaches next.ServeHTTP exactly once, without
\* identity and with nothing written; and whenever next.ServeHTTP was given
\* an identity, a verification call for the request had returned valid.
C8_PassThroughWithoutIdentity ==
    /\ (mpc = "done" /\ ~(req.tls /\ Len(req.certs) > 0)) =>
          (vcalls = 0 /\ nextCalls = 1 /\ nextCtx = NoIdentity /\ written = 0)
    /\ nextCtx # NoIdentity => (nextCalls = 1 /\ vcalls = 1 /\ VerifiedValid)
    /\ nextCalls <= 1

\* C8 witness: a TLS request with an empty certificate list was passed
\* through.
C8_Witness ==
    /\ mpc = "done"
    /\ req.tls
    /\ req.certs = <<>>
    /\ vcalls = 0
    /\ nextCalls = 1
    /\ nextCtx = NoIdentity

\* C9 (as claimed): a verification response with a status other than 200
\* makes VerifyCertificate return an error, and the request is rejected.
C9_Non200Rejected ==
    (Verified /\ vresp.transport /\ vresp.status # StatusOK) =>
        (result.err # "nil" /\ written = StatusUnauthorized /\ nextCalls = 0)

\* ------------------------------------------------------------------------
\* Properties of the issuance calls
\* ------------------------------------------------------------------------
\* The responses that Lookup and Fetch must treat as errors.
BadStatus(r, documented) == r.transport /\ r.status # documented
BadLookup(r) == ~r.transport \/ BadStatus(r, StatusOK) \/ ~r.bodyOK
BadFetch(r) == ~r.transport \/ BadStatus(r, StatusCreated) \/ ~r.bodyOK
BadRegister(r) == ~r.transport \/ BadStatus(r, StatusCreated)

PreLock == {"lookup", "lookupRet", "fetch", "fetchRet"}

InitFailed(e) == e \in {"registration failed", "initial SVID fetch failed"}

\* C11: a failed registration or a failed initial refreshSVID makes
\* Initialize return the matching error; a call that returned an error has
\* started no renewal loop, is out of refreshSVID for good, and (no other
\* call of Initialize running) the cache is still the empty one, never
\* written; refreshSVID, hence the lookup and the fetch request, is entered
\* only after a registration that succeeded; a loop is started only by a
\* call that returns nil.
C11_StartupAborts ==
    [][\A i \in InitIds :
         /\ (ipc[i] = "registerRet" /\ ipc'[i] # ipc[i] /\ BadRegister(resp[InitTask(i)]))
               => (initErr'[i] = "registration failed" /\ rf'[InitTask(i)] = "none")
         /\ (ipc[i] = "refresh" /\ rf[InitTask(i)] = "err" /\ ipc'[i] # ipc[i])
               => initErr'[i] = "initial SVID fetch failed"
         /\ (rf[InitTask(i)] = "none" /\ rf'[InitTask(i)] # "none")
               => (ipc[i] = "registerRet" /\ ~BadRegister(resp[InitTask(i)]))
         /\ InitFailed(initErr[i]) => initErr'[i] = initErr[i]
         /\ InitFailed(initErr'[i])
               => /\ ipc'[i] = "failed"
                  /\ lpc'[i] = "off"
                  /\ rf'[InitTask(i)] = "none"
                  /\ (\A j \in InitIds \ {i} : ipc'[j] = "idle")
                        => (currentSVID' = EmptySVIDCache /\ setCount' = 0)
         /\ (lpc[i] = "off" /\ lpc'[i] # "off") => initErr'[i] = "nil"]_vars

\* C11 witness: the initial fetch was answered with a credential under a
\* status other than 201; Initialize has returned the error, the cache is
\* empty and no loop was started.
C11_Witness ==
    /\ initErr["first"] = "initial SVID fetch failed"
    /\ issuedCount = 1
    /\ currentSVID = EmptySVIDCache
    /\ lpc["first"] = "off"

\* C12: while refreshSVID of the loop has not passed its requests, and when
\* it returns its error, the cache does not change; the loop then waits at
\* its select with the ticker as it was (no backoff); it leaves the loop only
\* when cancelled; and the check of the next tick it handles starts
\* refreshSVID again.
C12_FailedRenewalRetried ==
    [][\A i \in InitIds :
         /\ (lpc[i] = "refresh" /\ rf[LoopTask(i)] \in PreLock \cup {"err"})
               => currentSVID' = currentSVID
         /\ (rf[LoopTask(i)] = "err" /\ rf'[LoopTask(i)] # "err")
               => /\ lpc'[i] = "select"
                  /\ retryDue'[i]
                  /\ nextTick' = nextTick
                  /\ tickPending' = tickPending
         /\ (retryDue[i] /\ lpc'[i] # lpc[i])
               => \/ lpc[i] = "select" /\ lpc'[i] = "rlock" /\ tickPending[i]
                  \/ lpc[i] = "select" /\ lpc'[i] = "exited" /\ cancelled
                  \/ lpc[i] = "rlock" /\ lpc'[i] = "read"
                  \/ lpc[i] = "read" /\ lpc'[i] = "runlock"
                  \/ lpc[i] = "runlock" /\ lpc'[i] = "check"
                  \/ /\ lpc[i] = "check"
                     /\ lpc'[i] = "refresh"
                     /\ rf'[LoopTask(i)] = "lookup"
                     /\ ~retryDue'[i]]_vars

\* C12 witness: after a failed renewal the loop has taken the next tick and
\* is at its check, the cache and the reader still on the first credential.
C12_Witness ==
    /\ retryDue["first"]
    /\ lpc["first"] = "check"
    /\ ~cancelled
    /\ currentSVID.SVID = 1
    /\ lastGet["r1"].value = 1

\* C13 (as claimed, its safety part): a loop takes at most one tick from
\* its ticker once s.cancel() was called, and a loop that has exited is not
\* in refreshSVID.
C13_AtMostOneTickAfterCancel ==
    \A i \in InitIds :
        /\ ticksAfterCancel[i] <= 1
        /\ lpc[i] = "exited" => rf[LoopTask(i)] = "none"

\* ------------------------------------------------------------------------
\* Properties of the routing of outbound requests
\* ------------------------------------------------------------------------
\* str ends with suffix: some tail of str is suffix.
EndsWith(str, suffix) == \E k \in 0..Len(str) : SubSeq(str, k + 1, Len(str)) = suffix

DotRule(r) == Len(r) > 0 /\ r[1] = "."
BareRule(r) == Len(r) > 0 /\ r[1] # "."

Routed == rtpc = "done"
RoutedHost == RequestHost(rtReq)

\* C14: a request whose host equals some rule, or ends with some rule that
\* starts with a dot, was dispatched to the mTLS transport; one whose host
\* equals no rule, ends with no dot rule and ends with no "." + bare rule
\* was dispatched to the regular transport; with the example's rules its
\* three hosts go to mTLS, mTLS and regular; every request was dispatched to
\* exactly one of the two transports.
C14_RoutesByRuleMatch ==
    Routed =>
        /\ Len(rtUsed) = 1
        /\ rtUsed[1] \in {"mtls", "regular"}
        /\ (\E k \in 1..Len(internalDomains) :
               \/ RoutedHost = internalDomains[k]
               \/ DotRule(internalDomains[k]) /\ EndsWith(RoutedHost, internalDomains[k]))
              => rtUsed = <<"mtls">>
        /\ (\A k \in 1..Len(internalDomains) :
               /\ RoutedHost # internalDomains[k]
               /\ ~(DotRule(internalDomains[k]) /\ EndsWith(RoutedHost, internalDomains[k]))
               /\ ~(BareRule(internalDomains[k])
                      /\ EndsWith(RoutedHost, <<".">> \o internalDomains[k])))
              => rtUsed = <<"regular">>
        /\ internalDomains = ExampleRules =>
              /\ RoutedHost = ExampleHostA => rtUsed = <<"mtls">>
              /\ RoutedHost = ExampleHostB => rtUsed = <<"mtls">>
              /\ RoutedHost = ExampleHostC => rtUsed = <<"regular">>

\* C14 witness: with the example's rules, "payment-service.authsec" went to
\* the mTLS transport.
C14_Witness ==
    /\ Routed
    /\ internalDomains = ExampleRules
    /\ RoutedHost = ExampleHostB
    /\ rtUsed = <<"mtls">>

\* C15 (as claimed): with a single bare rule, of any length, the request goes
\* to the mTLS transport exactly when its host equals the rule or ends with
\* "." followed by the rule.
C15_BareRuleMatch ==
    (Routed /\ Len(internalDomains) = 1 /\ BareRule(internalDomains[1])) =>
        (rtUsed = <<"mtls">>
           <=> \/ RoutedHost = internalDomains[1]
               \/ EndsWith(RoutedHost, <<".">> \o internalDomains[1]))

C17_CloneDispatchedOnce ==
    [][(mtpc = "called" /\ mtpc' = "done") =>
          /\ mtObjs'.orig = mtObjs.orig
          /\ Len(mtSent') = 1
          /\ mtSent'[1].obj = "clone"
          /\ mtSent'[1].content = mtObjs.orig
          /\ mtTransport.kind = "supplied" => mtSent'[1].via = SuppliedTransport
          /\ mtTransport.kind = "nil" => mtSent'[1].via = [kind |-> "built", tls |-> tlsConfig]
          /\ mtTransport.kind = "built" => mtSent'[1].via = mtTransport
          /\ lifeVars' = lifeVars]_vars

\* C17 witness: no transport was supplied; the clone went through a
\* transport built with the TLS configuration Initialize had set, that
\* transport changed the clone, and the caller's request is as it was sent.
C17_Witness ==
    /\ mtpc = "done"
    /\ mtSent = <<[obj |-> "clone", content |-> CallerRequest, via |-> BuiltTransport(TRUE)]>>
    /\ mtObjs.clone = [Header |-> "changed"]
    /\ mtObjs.orig = CallerRequest

\* C18 (as claimed): once Initialize has returned nil, the client that
\* GetHTTPClient returns has a transport with a TLS configuration.
C18_ClientHasTLSConfig ==
    initErr["first"] = "nil" => GetHTTPClient.Transport.TLSClientConfig

\* ------------------------------------------------------------------------
\* Properties of the order of credentials
\* ------------------------------------------------------------------------
\* C19 (as claimed): the credential in the cache is replaced only by one
\* issued later, and a read never returns a credential issued before one
\* the reader has already been returned.
C19_NoBackwardVersion ==
    [][/\ currentSVID'.SVID # currentSVID.SVID => currentSVID'.SVID > currentSVID.SVID
       /\ \A r \in Readers :
            (gpc[r] = "read" /\ gpc'[r] = "runlock") => lastGet'[r].value >= seen[r]]_vars

\* C20 (as claimed): a renewal by the loop replaces the cached credential
\* by one issued later whose ExpiresAt is strictly greater, and the cache
\* never goes back to a credential issued earlier.
C20_RenewalExtendsExpiry ==
    [][/\ \A i \in InitIds :
            /\ (rf[LoopTask(i)] = "wSVID" /\ rf'[LoopTask(i)] = "wPrivateKey")
                  => (currentSVID'.SVID = svid[LoopTask(i)].SVID
                        /\ currentSVID'.SVID > currentSVID.SVID)
            /\ (rf[LoopTask(i)] = "wExpiresAt" /\ rf'[LoopTask(i)] = "wIssuedAt")
                  => currentSVID'.ExpiresAt > currentSVID.ExpiresAt
            /\ (rf[LoopTask(i)] = "unlock" /\ rf'[LoopTask(i)] = "ok")
                  => (WholeCredential /\ currentSVID.SVID = svid[LoopTask(i)].SVID)
       /\ currentSVID'.SVID >= currentSVID.SVID]_vars

\* ------------------------------------------------------------------------
\* Properties of shutdown and of the order of start-up
\* ------------------------------------------------------------------------
\* C21 (as claimed): the credential is discarded on shutdown: a read of the
\* cache evaluated after Close returns no credential.
C21_DiscardedOnClose ==
    [][\A r \in Readers :
         (cancelled /\ gpc[r] = "read" /\ gpc'[r] = "runlock")
            => lastGet'[r].value = EmptySVIDCache.SVID]_vars

\* C22: Initialize performs its steps in a fixed order.  Its lookup is sent
\* only when the register call has returned success, its issuance request
\* only when the lookup has returned success, it takes the lock for the
\* first write of the cache only when the issuance request has returned a
\* credential, and the loop is started only when refreshSVID has returned
\* nil with the whole credential stored: no loop runs while the cache has
\* never been written.
C22_InitializeOrder ==
    [][\A i \in InitIds :
         LET t == InitTask(i) IN
         /\ (rf[t] = "none" /\ rf'[t] = "lookup")
               => (ipc[i] = "registerRet" /\ RegisterAndIssueSVID(resp[t]) = "nil")
         /\ (rf[t] # "fetch" /\ rf'[t] = "fetch")
               => (rf[t] = "lookupRet" /\ GetOrRefreshSVID_lookup(resp[t]) = "nil")
         /\ (rf[t] # "lock" /\ rf'[t] = "lock")
               => (rf[t] = "fetchRet" /\ GetOrRefreshSVID_svid(resp[t]) = "nil")
         /\ (setCount = 0 /\ currentSVID' # currentSVID)
               => \E j \in InitIds :
                     /\ rf[InitTask(j)] \in WritePositions
                     /\ InitTask(j) = muWriter
                     /\ svid[InitTask(j)].SVID \in 1..issuedCount
         /\ (lpc[i] = "off" /\ lpc'[i] # "off")
               => (rf[t] = "ok" /\ setCount >= 1 /\ WholeCredential
                     /\ currentSVID.SVID \in 1..issuedCount)
         /\ lpc'[i] # "off" => setCount' >= 1]_vars

\* The loop started by Initialize waits at its select, the cache holding
\* the credential Initialize stored.
C22_Witness ==
    /\ ipc["first"] = "done"
    /\ lpc["first"] = "select"
    /\ setCount = 1
    /\ WholeCredential
    /\ currentSVID.SVID = 1

\* C23 (as claimed): at most one renewal loop runs on an instance and at
\* most one issuance request is in flight at any time, Initialize being
\* called twice included.
C23_SingleLoopSingleFetch ==
    /\ Cardinality({i \in InitIds : lpc[i] \notin {"off", "exited"}}) <= 1
    /\ Cardinality({t \in Callers : rf[t] = "fetch"}) <= 1

\* ------------------------------------------------------------------------
\* Properties of the use of the lock
\* ------------------------------------------------------------------------
\* C24: the write lock of the cache is never held across a network call.
\* Its holder is in the field copy of refreshSVID (or about to unlock), a
\* caller that is before its lookup or issuance response or has failed does
\* not hold it, and while a renewal waits for the service and nobody is in
\* the field copy a reader can take the read lock.
C24_NoLockAcrossNetwork ==
    /\ \A t \in Callers :
         /\ t = muWriter => rf[t] \in WritePositions \cup {"unlock"}
         /\ rf[t] \in PreLock \cup {"err", "ok", "none"} => t # muWriter
    /\ (\A t \in Callers : rf[t] \notin WritePositions \cup {"unlock"}) => CanRLock

\* The loop's issuance request is in flight and a reader holds the read
\* lock it has just taken.
C24_Witness ==
    /\ rf[LoopTask("first")] = "fetch"
    /\ gpc["r1"] = "read"
    /\ GetTask("r1") \in muReaders
    /\ muWriter = NoTask

\* C25 (as claimed): every read and every write of a field of the cache is
\* made by a task that holds the lock in the matching mode: GetCurrentSVID
\* and the loop's expiry check under the read lock, the field copy of
\* refreshSVID under the write lock, and the loop's read of ExpiresAt for
\* the message it prints after a successful renewal under the read lock.
C25_EveryAccessUnderLock ==
    /\ \A r \in Readers : gpc[r] = "read" => GetTask(r) \in muReaders
    /\ \A i \in InitIds :
         /\ lpc[i] = "read" => LoopTask(i) \in muReaders
         /\ (lpc[i] = "refresh" /\ rf[LoopTask(i)] = "ok") => LoopTask(i) \in muReaders
    /\ \A t \in Callers : rf[t] \in WritePositions => t = muWriter

\* ------------------------------------------------------------------------
\* Properties of GetOrRefreshSVID
\* ------------------------------------------------------------------------
\* C26: GetOrRefreshSVID sends the issuance request only when the lookup
\* has returned status 200 with a decodable body that lists at least one
\* workload, and the handle it uses is the id of the first workload listed;
\* when the body lists no workload it returns the not-found error and sends
\* no issuance request.
C26_IssueAfterLookup ==
    [][\A t \in Callers :
         /\ (rf[t] # "fetch" /\ rf'[t] = "fetch")
               => /\ rf[t] = "lookupRet"
                  /\ resp[t].transport
                  /\ resp[t].status = StatusOK
                  /\ resp[t].bodyOK
                  /\ Len(resp[t].workloads) >= 1
                  /\ workloadID'[t] = Head(resp[t].workloads)
         /\ (/\ rf[t] = "lookupRet" /\ rf'[t] # "lookupRet"
             /\ resp[t].transport /\ resp[t].status = StatusOK /\ resp[t].bodyOK
             /\ resp[t].workloads = <<>>)
               => /\ GetOrRefreshSVID_lookup(resp[t]) = "notfound"
                  /\ rf'[t] = "err"
                  /\ workloadID'[t] = None
                  /\ issuedCount' = issuedCount
         /\ rf'[t] = "fetch" => workloadID'[t] # None]_vars

\* The loop is at its issuance request with the id of the first of two
\* workloads listed.
C26_Witness ==
    /\ rf[LoopTask("first")] = "fetch"
    /\ workloadID[LoopTask("first")] = "w2"

\* ------------------------------------------------------------------------
\* Properties of recovery
\* ------------------------------------------------------------------------
\* The loop's refreshSVID has returned nil and the cache holds the whole of
\* the credential issued last.
RenewedNow(i) ==
    /\ lpc[i] = "refresh"
    /\ rf[LoopTask(i)] = "ok"
    /\ WholeCredential
    /\ currentSVID.SVID = issuedCount

\* C27: renewal recovers after an outage.  When the last renewal failed
\* (the cached credential is still within RenewalThreshold of its expiry),
\* no shutdown is signalled and the next tick has arrived, then the cache
\* comes to hold a newly fetched credential, unless a call of the service
\* fails again or shutdown is signalled.
C27_RenewalRecovers ==
    (retryDue["first"] /\ tickPending["first"] /\ ~cancelled)
       ~> (RenewedNow("first") \/ rf[LoopTask("first")] = "err" \/ cancelled)

\* After a failed renewal (the calls of Initialize succeeded and both
\* credentials issued have a positive lifetime, so a renewal of the loop is
\* what failed), the loop has fetched credential 2 and goes on to store it.
C27_Witness ==
    /\ ~nominal
    /\ ~cancelled
    /\ rf[LoopTask("first")] = "lock"
    /\ svid[LoopTask("first")].SVID = 2
    /\ svid[LoopTask("first")].ExpiresAt > svid[LoopTask("first")].IssuedAt
    /\ currentSVID.SVID = 1
    /\ currentSVID.ExpiresAt > currentSVID.IssuedAt

\* ------------------------------------------------------------------------
\* Properties of the clients handed out
\* ------------------------------------------------------------------------
\* C28: the mTLS transport of a client is fixed at construction.  No step
\* changes the client GetHTTPClient returned or the transport and rules
\* of the client NewInternalHTTPClient returned; the steps of refreshSVID
\* (the service calls and the field copy of a renewal) leave s.tlsConfig as
\* it is; so a client built before Initialize set the TLS configuration
\* keeps the one it was built with.
C28_TransportFixed ==
    [][/\ httpClient # NoClient => httpClient' = httpClient
       /\ rtpc # "noclient"
             => (smartTLS' = smartTLS /\ internalDomains' = internalDomains)
       /\ (\E t \in Callers : rf[t] \notin {"none", "ok", "err"} /\ rf'[t] # rf[t])
             => tlsConfig' = tlsConfig
       /\ currentSVID' # currentSVID => tlsConfig' = tlsConfig]_vars

\* The loop has renewed the credential, Initialize has set the TLS
\* configuration, and both clients, built before, still have none.
C28_Witness ==
    /\ currentSVID.SVID = 2
    /\ setCount = 2
    /\ tlsConfig
    /\ httpClient = [Transport |-> [TLSClientConfig |-> FALSE], Timeout |-> 30]
    /\ rtpc = "idle"
    /\ ~smartTLS

\* ------------------------------------------------------------------------
\* Properties of the routing decision under changes of the rules and of
\* the authority
\* ------------------------------------------------------------------------
\* The lists made of the same rules as `domains`, in any order, each rule
\* once or more, of the same length or one rule longer.
SameRules(domains) ==
    LET rules == {domains[k] : k \in 1..Len(domains)} IN
    UNION {{p \in [1..n -> rules] : {p[k] : k \in 1..n} = rules}
             : n \in Len(domains)..(Len(domains) + 1)}

\* C29: the routing decision does not depend on the order of the rules.
\* The transport a request was dispatched to is the one selected for its
\* host by every list made of the same rules in another order or with a
\* rule repeated.
C29_OrderIndependent ==
    Routed =>
        \A p \in SameRules(internalDomains) :
            smartTransport_route(RoutedHost, p) = rtUsed

\* A host that the second of two rules matches and the first does not was
\* dispatched to the mTLS transport.
C29_Witness ==
    /\ Routed
    /\ Len(internalDomains) = 2
    /\ ~RuleSelectsMTLS(RoutedHost, internalDomains[1])
    /\ RuleSelectsMTLS(RoutedHost, internalDomains[2])
    /\ <<internalDomains[2], internalDomains[1]>> \in SameRules(internalDomains)
    /\ rtUsed = <<"mtls">>

\* The host name of an authority: the part before its first ":".
HostNameOf(authority) ==
    IF \E k \in 1..Len(authority) : authority[k] = ":"
    THEN SubSeq(authority, 1,
                (CHOOSE k \in 1..Len(authority) :
                    /\ authority[k] = ":"
                    /\ \A j \in 1..(k - 1) : authority[j] # ":") - 1)
    ELSE authority

\* C30 (as claimed): routing is decided on the host name alone.  The
\* destination is the URL's authority when it is not empty and the Host
\* field otherwise, and a request to "host:port" was dispatched to the
\* transport that the rules select for "host".
C30_RoutedOnHostName ==
    Routed =>
        LET dest == IF rtReq.URLHost # <<>> THEN rtReq.URLHost ELSE rtReq.Host IN
        rtUsed = smartTransport_route(HostNameOf(dest), internalDomains)

\* ------------------------------------------------------------------------
\* Properties of progress on the lock
\* ------------------------------------------------------------------------
\* The tasks that take the write lock when Initialize is called once.
LockWriters == {InitTask("first"), LoopTask("first")}

\* The tasks that take the read lock.
LockReaders == {LoopTask("first")} \cup {GetTask(r) : r \in Readers}

\* C31: the SDK never deadlocks on the cache.  The loop does not hold the
\* read lock while its refreshSVID runs (it has released it before the
\* write lock is asked for); a task that waits for the write lock or for
\* the read lock gets it; and every holder of the lock, in either mode,
\* releases it.
C31_NoDeadlock ==
    /\ [](\A i \in InitIds :
            rf[LoopTask(i)] # "none" => LoopTask(i) \notin muReaders)
    /\ \A t \in LockWriters : (rf[t] = "lock") ~> (muWriter = t)
    /\ (muWriter \in LockWriters) ~> (muWriter = NoTask)
    /\ (lpc["first"] = "rlock") ~> (LoopTask("first") \in muReaders)
    /\ \A t \in LockReaders : (t \in muReaders) ~> (t \notin muReaders)

\* The loop waits for the write lock while a caller of GetCurrentSVID holds
\* the read lock.
C31_Witness ==
    /\ rf[LoopTask("first")] = "lock"
    /\ GetTask("r1") \in muReaders
    /\ LoopTask("first") \notin muReaders
    /\ muWriter = NoTask

====
